---- MODULE Spec2Model ----
(***************************************************************************)
(* The rooftop-farm frontend.  The Dashboard: the sensor history buffer,   *)
(* its analytics snapshot, the value persisted under                       *)
(* localStorage['sensorHistory'] and the 5-second polling loop.  The App   *)
(* and its other tabs, PlantHealth, ChatBot and CropPlanner: their lists,  *)
(* the items they keep in localStorage and their requests.                 *)
(*                                                                         *)
(* Numbers.  Raw sensor values are fixed-point integers in hundredths      *)
(* (2004 is 20.04).  A value printed by toFixed(1) is kept as an integer   *)
(* in tenths ("22.3" is 223), one printed by toFixed(0) as an integer in   *)
(* units.  toFixed rounds the binary double to the nearest value of the     *)
(* printed precision.  Where the fixed-point value lies exactly half way   *)
(* between two printed values the double lies on either side of the tie    *)
(* (0.05 prints "0.1", 1.45 prints "1.4", and the sum of six 0.05 divided  *)
(* by 6 prints "0.0"), so the model allows both neighbours.                *)
(*                                                                         *)
(* React.  A state updater runs when React renders the component that owns *)
(* the state; the model runs it in the step in which the response of the   *)
(* fetch is handled.  An exception thrown by an updater is thrown while    *)
(* rendering: with no error boundary in the tree React 18 unmounts the     *)
(* root, so the batch of updates of that response is never committed.      *)
(* State updates requested by a component instance that is no longer       *)
(* mounted are dropped.                                                    *)
(***************************************************************************)
EXTENDS Integers, Sequences, FiniteSets, TLC

VARIABLES
    view,        \* "mounted" | "unmounted" | "crashed" : the Dashboard instance
    gen,         \* number of the current (or last) Dashboard instance
    sensorData,  \* useState(null): the last payload fetched
    loading,     \* useState(true)
    error,       \* useState(null): [message |-> m] after a failed poll
    history,     \* useState([]): the History Buffer
    analytics,   \* useState(null): the Analytics Snapshot
    storage,     \* the item stored under localStorage['sensorHistory']
    timers,      \* instances whose setInterval timer is live
    inFlight,    \* fetches issued and not yet answered
    polls,       \* number of fetches issued so far
    download,    \* the text of the CSV file last handed to the browser
    activeTab,   \* App: useState('dashboard')
    root,        \* "rendered" | "removed" : the React root of the page
    instance,    \* number of tab components mounted so far
    plantHealth, \* the state of the mounted PlantHealth, Null without one
    chatBot,     \* the state of the mounted ChatBot, Null without one
    cropPlanner, \* the state of the mounted CropPlanner, Null without one
    localStorage,\* the items under 'plantHealthHistory', 'chatHistory' and
                 \* 'savedCropPlans'
    pending,     \* fetches and FileReader loads started and not yet settled
    clock        \* number of fetches and FileReader loads started so far

\* the Dashboard
dashboard == <<view, gen, sensorData, loading, error, history, analytics,
               storage, timers, inFlight, polls, download>>

\* the App and its other three tabs
tabs == <<activeTab, root, instance, plantHealth, chatBot, cropPlanner,
          localStorage, pending, clock>>

vars == <<view, gen, sensorData, loading, error, history, analytics,
          storage, timers, inFlight, polls, download, activeTab, root,
          instance, plantHealth, chatBot, cropPlanner, localStorage, pending,
          clock>>

----------------------------------------------------------------------------
(* Bounds of the model *)

MaxPolls == 3

MaxMounts == 2

MaxInFlight == 2

MaxLen == 3

----------------------------------------------------------------------------
(* Program constants and values *)

HistoryCap == 50

\* null and undefined
Null == [null |-> TRUE]

\* localStorage.getItem answers null
NoItem == [item |-> "none"]

\* an item JSON.parse throws on
Corrupt == [item |-> "unparseable"]

\* the App shows the Dashboard and the other three tabs have never been
\* opened
DashboardTab ==
    /\ activeTab = "dashboard"
    /\ root = "rendered"
    /\ instance = 1
    /\ plantHealth = Null
    /\ chatBot = Null
    /\ cropPlanner = Null
    /\ localStorage = [plantHealthHistory |-> NoItem, chatHistory |-> NoItem,
                       savedCropPlans |-> NoItem]
    /\ pending = {}
    /\ clock = 0

Rising == "up"

Falling == "down"

Steady == "right"

Metrics == {"temperature", "humidity", "soil_moisture", "sunlight_intensity"}

\* raw hundredths per printed unit: toFixed(1) for three metrics, toFixed(0)
\* for sunlight
Precision(m) == IF m = "sunlight_intensity" THEN 100 ELSE 10

FetchErrors == {"Failed to fetch sensor data", "Failed to fetch"}

----------------------------------------------------------------------------
(* Sensor payloads: what GET /ai/sensor-status answers *)

Sample(t, h, m, s, st) ==
    [temperature |-> t, humidity |-> h, soil_moisture |-> m,
     sunlight_intensity |-> s, status |-> st]

Samples ==
    { Sample(2000, 5500, 4500, 3000000, "optimal"),
      Sample(2200, 5504, 2500, 2999950, "warning"),
      Sample(2500, 5496, 4500, 3000049, "optimal"),
      Sample(2004, 6000, 8500, 3000000, "warning"),
      Sample(-4,   5500, 4500, 2500000, "critical"),
      Sample(4150, 5450, 4500, 3000000, "critical") }

Payloads ==
    { Sample(2004, 6000, 4500, 2999940, "optimal"),
      Sample(4150, 5460, 2500, 3000049, "critical") }

\* the payload of fetch number n as the server stamps it
Response(n, data) ==
    [temperature |-> data.temperature, humidity |-> data.humidity,
     soil_moisture |-> data.soil_moisture,
     sunlight_intensity |-> data.sunlight_intensity,
     status |-> data.status, timestamp |-> [type |-> "string", ms |-> HistoryCap + n]]

----------------------------------------------------------------------------
(* JavaScript helpers *)

Abs(x) == IF x < 0 THEN -x ELSE x

\* toFixed replaced by Math.ceil to the printed precision
ToFixedCeil(num, den, unit) ==
    LET q == den * unit
    IN  { IF num < 0 THEN -(Abs(num) \div q) ELSE (num + q - 1) \div q }

\* toFixed replaced by truncation to the printed precision
ToFixedTrunc(num, den, unit) ==
    LET q == den * unit
    IN  { IF num < 0 THEN -(Abs(num) \div q) ELSE num \div q }

\* Number.prototype.toFixed applied to num/den, printed with `unit` raw
\* units per printed unit: the values it can print
ToFixed(num, den, unit) ==
    LET q    == den * unit
        lo   == Abs(num) \div q
        rem2 == 2 * (Abs(num) % q)
        mags == IF rem2 < q THEN {lo}
                ELSE IF rem2 > q THEN {lo + 1}
                ELSE {lo, lo + 1}
    IN  { IF num < 0 THEN -n ELSE n : n \in mags }

RECURSIVE Reduce(_, _)
Reduce(s, acc) == IF s = <<>> THEN acc ELSE Reduce(Tail(s), acc + Head(s))

RECURSIVE MathMin(_)
MathMin(s) ==
    IF Len(s) = 1 THEN s[1]
    ELSE LET r == MathMin(Tail(s)) IN IF s[1] < r THEN s[1] ELSE r

RECURSIVE MathMax(_)
MathMax(s) ==
    IF Len(s) = 1 THEN s[1]
    ELSE LET r == MathMax(Tail(s)) IN IF s[1] > r THEN s[1] ELSE r

\* slice(-(n + 1)): one reading too many is kept
SliceLastOffByOne(s, n) ==
    LET from == IF Len(s) - (n + 1) < 0 THEN 0 ELSE Len(s) - (n + 1)
    IN  SubSeq(s, from + 1, Len(s))

\* slice(0, n): the oldest n readings are kept
SliceFirst(s, n) == SubSeq(s, 1, IF Len(s) < n THEN Len(s) ELSE n)

\* Array.prototype.slice(start) with a negative start
SliceLast(s, n) ==
    LET from == IF Len(s) - n < 0 THEN 0 ELSE Len(s) - n
    IN  SubSeq(s, from + 1, Len(s))

\* new Date(isoString)
NewDate(ts) == [type |-> "Date", ms |-> ts.ms]

\* the date written without its time of day
ToJSONDateOnly(ts) == [type |-> "string", ms |-> 0]

\* Date.prototype.toJSON; a string is serialized as itself
ToJSON(ts) == [type |-> "string", ms |-> ts.ms]

\* the serialization of the buffer before the newest reading was appended
JSONstringifyStale(h) ==
    [json |-> [i \in 1..(Len(h) - 1) |-> [h[i] EXCEPT !.timestamp = ToJSON(@)]]]

JSONstringify(h) ==
    [json |-> [i \in 1..Len(h) |-> [h[i] EXCEPT !.timestamp = ToJSON(@)]]]

\* JSON.parse of an item JSON.stringify wrote; no reviver, so a timestamp
\* stays a string
JSONparse(item) == item.json

----------------------------------------------------------------------------
(* calculateAnalytics *)

Column(data, m) == [i \in 1..Len(data) |-> data[i][m]]

Trend(vals) ==
    IF Len(vals) > 1
    THEN (IF vals[Len(vals)] > vals[1] THEN Rising ELSE Falling)
    ELSE Steady

\* the {avg, min, max, trend} objects one metric can get; one double prints
\* one way, so equal min and max print alike, and so does the average of a
\* single value
MetricStats(vals, unit) ==
    { [avg |-> a, min |-> lo, max |-> hi, trend |-> Trend(vals)] :
        <<a, lo, hi>> \in
          { t \in ToFixed(Reduce(vals, 0), Len(vals), unit)
                  \X ToFixed(MathMin(vals), 1, unit)
                  \X ToFixed(MathMax(vals), 1, unit) :
              /\ MathMin(vals) = MathMax(vals) => t[2] = t[3]
              /\ Len(vals) = 1 => t[1] = t[2] } }

\* the guard written as data.length <= 1
calculateAnalyticsGuardOne(data, prev) ==
    IF Len(data) <= 1 THEN {prev}
    ELSE { [temperature |-> t, humidity |-> h, soil_moisture |-> m,
            sunlight_intensity |-> s] :
             t \in MetricStats(Column(data, "temperature"),
                               Precision("temperature")),
             h \in MetricStats(Column(data, "humidity"),
                               Precision("humidity")),
             m \in MetricStats(Column(data, "soil_moisture"),
                               Precision("soil_moisture")),
             s \in MetricStats(Column(data, "sunlight_intensity"),
                               Precision("sunlight_intensity")) }

\* the values `analytics` can have after calculateAnalytics(data), prev
\* being its value before the call
calculateAnalytics(data, prev) ==
    IF Len(data) = 0 THEN {prev}
    ELSE { [temperature |-> t, humidity |-> h, soil_moisture |-> m,
            sunlight_intensity |-> s] :
             t \in MetricStats(Column(data, "temperature"),
                               Precision("temperature")),
             h \in MetricStats(Column(data, "humidity"),
                               Precision("humidity")),
             m \in MetricStats(Column(data, "soil_moisture"),
                               Precision("soil_moisture")),
             s \in MetricStats(Column(data, "sunlight_intensity"),
                               Precision("sunlight_intensity")) }

----------------------------------------------------------------------------
(* What an earlier session of the Dashboard left under 'sensorHistory' *)

\* the i-th reading an earlier session ingested
StoredReading(i) ==
    [temperature |-> 2000 + 10 * (i % 7), humidity |-> 5500 - 4 * (i % 4),
     soil_moisture |-> 4500 + (i % 3), sunlight_intensity |-> 3000000 + 40 * (i % 5),
     status |-> "optimal", timestamp |-> [type |-> "Date", ms |-> i]]

StoredLens == {1, HistoryCap - 1, HistoryCap}

PersistedBlobs ==
    {NoItem, Corrupt} \cup
    { JSONstringify([i \in 1..k |-> StoredReading(i)]) : k \in StoredLens }

----------------------------------------------------------------------------
(* Mount: useState initial values, then the two effects *)

\* the reload without its try/catch around JSON.parse: the raw item ends
\* up as the buffer
LoadedHistoryRaw(item) ==
    IF item = NoItem THEN <<>>
    ELSE IF item = Corrupt THEN <<item>>
    ELSE JSONparse(item)

\* effect 1, the reload from localStorage: `history` after it
LoadedHistory(item) ==
    IF item = NoItem THEN <<>>
    ELSE IF item = Corrupt THEN <<>>
    ELSE JSONparse(item)

\* the reload without its call of calculateAnalytics
LoadedAnalyticsSkipped(item) == {Null}

\* effect 1: the values `analytics` can have after it
LoadedAnalytics(item) ==
    IF item = NoItem THEN {Null}
    ELSE IF item = Corrupt THEN {Null}
    ELSE calculateAnalytics(JSONparse(item), Null)

Request(n, g) == [id |-> n, gen |-> g]

Live == {r \in inFlight : r.gen = gen}

Init ==
    /\ view = "mounted"
    /\ gen = 1
    /\ sensorData = Null
    /\ loading = TRUE
    /\ error = Null
    /\ storage \in PersistedBlobs
    /\ history = LoadedHistory(storage)
    /\ analytics \in LoadedAnalytics(storage)
    /\ timers = {1}
    /\ inFlight = {Request(1, 1)}
    /\ polls = 1
    /\ download = Null
    /\ DashboardTab

Mount ==
    /\ view # "mounted"
    /\ gen < MaxMounts
    /\ polls < MaxPolls
    /\ view' = "mounted"
    /\ gen' = gen + 1
    /\ sensorData' = Null
    /\ loading' = TRUE
    /\ error' = Null
    /\ history' = LoadedHistory(storage)
    /\ analytics' \in LoadedAnalytics(storage)
    /\ polls' = polls + 1
    /\ inFlight' = inFlight \cup {Request(polls + 1, gen + 1)}
    /\ timers' = timers \cup {gen + 1}
    /\ UNCHANGED <<tabs, download, storage>>

\* the polling effect without its cleanup: clearInterval is never called
UnmountKeepsTimer ==
    /\ view = "mounted"
    /\ view' = "unmounted"
    /\ UNCHANGED <<tabs, download, gen, sensorData, loading, error, history, analytics,
                   storage, timers, inFlight, polls>>

\* the cleanup of the polling effect
Unmount ==
    /\ view = "mounted"
    /\ view' = "unmounted"
    /\ timers' = timers \ {gen}
    /\ UNCHANGED <<tabs, download, gen, sensorData, loading, error, history, analytics,
                   storage, inFlight, polls>>

----------------------------------------------------------------------------
(* The polling loop *)

\* a tick of a live interval timer calls fetchSensorData
Tick ==
    /\ timers # {}
    /\ polls < MaxPolls
    /\ Cardinality(inFlight) < MaxInFlight
    /\ \E g \in timers :
         inFlight' = inFlight \cup {Request(polls + 1, g)}
    /\ polls' = polls + 1
    /\ UNCHANGED <<tabs, download, view, gen, sensorData, loading, error, history, analytics,
                   storage, timers>>

\* the setHistory updater applied to prevHistory
NewHistory(prevHistory, data) ==
    SliceLast(Append(prevHistory, [data EXCEPT !.timestamp = NewDate(@)]),
              HistoryCap)

\* the response is ok and localStorage.setItem succeeds
FetchOk(r, data) ==
    /\ r \in Live
    /\ view = "mounted"
    /\ inFlight' = inFlight \ {r}
    /\ sensorData' = Response(r.id, data)
    /\ loading' = FALSE
    /\ error' = Null
    /\ history' = NewHistory(history, Response(r.id, data))
    /\ storage' = JSONstringify(NewHistory(history, Response(r.id, data)))
    /\ analytics' \in calculateAnalytics(
                        NewHistory(history, Response(r.id, data)), analytics)
    /\ UNCHANGED <<tabs, download, view, gen, timers, polls>>

\* the response is ok and localStorage.setItem throws inside the updater:
\* the render that runs the updater fails and React unmounts the root
FetchOkSetItemThrows(r, data) ==
    /\ r \in Live
    /\ view = "mounted"
    /\ inFlight' = inFlight \ {r}
    /\ view' = "crashed"
    /\ timers' = timers \ {gen}
    /\ UNCHANGED <<tabs, download, gen, sensorData, loading, error, history, analytics,
                   storage, polls>>

\* fetch rejects, the response is not ok, or response.json() rejects
FetchFail(r, msg) ==
    /\ r \in Live
    /\ view = "mounted"
    /\ inFlight' = inFlight \ {r}
    /\ error' = [message |-> msg]
    /\ loading' = FALSE
    /\ UNCHANGED <<tabs, download, view, gen, sensorData, history, analytics, storage,
                   timers, polls>>

\* an answer to a fetch of an instance that is no longer mounted
StaleResponse(r) ==
    /\ r \in inFlight
    /\ ~(r \in Live /\ view = "mounted")
    /\ inFlight' = inFlight \ {r}
    /\ UNCHANGED <<tabs, download, view, gen, sensorData, loading, error, history, analytics,
                   storage, timers, polls>>

\* what SensorPanel renders for the props the Dashboard passes it
SensorPanel(data, isLoading, err) ==
    IF isLoading /\ data = Null THEN "loading"
    ELSE IF err # Null THEN "error"
    ELSE IF data = Null THEN "nothing"
    ELSE "readings"

\* Smart Alerts: the banner is rendered
AlertBanner(data) ==
    data # Null /\ (data.status = "warning" \/ data.status = "critical")

\* the temperature line drawn at the critical thresholds 5 and 40
AlertDetailsCriticalOnly(data) ==
    { line \in {"temperature", "soil moisture low", "soil moisture high"} :
        \/ line = "temperature"
              /\ (data.temperature < 500 \/ data.temperature > 4000)
        \/ line = "soil moisture low" /\ data.soil_moisture < 3000
        \/ line = "soil moisture high" /\ data.soil_moisture > 8000 }

\* Smart Alerts: the detail lines rendered inside the banner
AlertDetails(data) ==
    { line \in {"temperature", "soil moisture low", "soil moisture high"} :
        \/ line = "temperature"
              /\ (data.temperature < 1000 \/ data.temperature > 3500)
        \/ line = "soil moisture low" /\ data.soil_moisture < 3000
        \/ line = "soil moisture high" /\ data.soil_moisture > 8000 }

Next ==
    \/ Mount
    \/ Unmount
    \/ Tick
    \/ \E r \in inFlight, data \in Payloads : FetchOk(r, data)
    \/ \E r \in inFlight, data \in Payloads : FetchOkSetItemThrows(r, data)
    \/ \E r \in inFlight, msg \in FetchErrors : FetchFail(r, msg)
    \/ \E r \in inFlight : StaleResponse(r)

Spec == Init /\ [][Next]_vars

----------------------------------------------------------------------------
(* calculateAnalytics on its own: every buffer of at most MaxLen samples *)

SampleReadings == { [d EXCEPT !.timestamp = NewDate(@)] :
                    d \in { Response(0, x) : x \in Samples } }

Buffers == UNION { [1..n -> SampleReadings] : n \in 0..MaxLen }

InitCalc ==
    /\ view = "unmounted"
    /\ gen = 1
    /\ sensorData = Null
    /\ loading = FALSE
    /\ error = Null
    /\ history \in Buffers
    /\ analytics = Null
    /\ storage = NoItem
    /\ timers = {}
    /\ inFlight = {}
    /\ polls = 0
    /\ download = Null
    /\ DashboardTab

Calculate ==
    /\ view = "unmounted"
    /\ view' = "mounted"
    /\ analytics' \in calculateAnalytics(history, analytics)
    /\ UNCHANGED <<tabs, download, gen, sensorData, loading, error, history, storage, timers,
                   inFlight, polls>>

NextCalc == Calculate

SpecCalc == InitCalc /\ [][NextCalc]_vars

----------------------------------------------------------------------------
(* exportData.  A string is a sequence of tokens: the delimiters "," and   *)
(* "\n" are tokens of their own, every other token is a piece of text      *)
(* without a delimiter in it.                                               *)

Comma == [ch |-> ","]

Newline == [ch |-> "\n"]

\* the locales of the browser: en-US prints a date as "11/5/2026,
\* 12:33:56 AM", ja-JP as "2026/11/5 0:33:56"
Locales == {"en-US", "ja-JP"}

\* new Date(h.timestamp).toLocaleString()
ToLocaleString(ts, locale) ==
    IF locale = "en-US"
    THEN <<[date |-> ts.ms], Comma, [time |-> ts.ms]>>
    ELSE <<[datetime |-> ts.ms]>>

\* the string of a number, as Array.prototype.join makes it
NumberToString(x) == <<[num |-> x]>>

Text(str) == <<[text |-> str]>>

\* Array.prototype.join of strings
RECURSIVE Join(_, _)
Join(strings, sep) ==
    IF Len(strings) = 0 THEN <<>>
    ELSE IF Len(strings) = 1 THEN strings[1]
    ELSE strings[1] \o <<sep>> \o Join(Tail(strings), sep)

headers ==
    <<Text("Timestamp"), Text("Temperature (C)"), Text("Humidity (%)"),
      Text("Soil Moisture (%)"), Text("Sunlight (lux)"), Text("Status")>>

Row(h, locale) ==
    <<ToLocaleString(h.timestamp, locale), NumberToString(h.temperature),
      NumberToString(h.humidity), NumberToString(h.soil_moisture),
      NumberToString(h.sunlight_intensity), Text(h.status)>>

\* the rows in the newest-first order of a display
RowsReversed(hist, locale) ==
    [i \in 1..Len(hist) |-> Row(hist[Len(hist) + 1 - i], locale)]

Rows(hist, locale) == [i \in 1..Len(hist) |-> Row(hist[i], locale)]

Csv(hist, locale) ==
    LET table == <<headers>> \o Rows(hist, locale)
    IN  Join([i \in 1..Len(table) |-> Join(table[i], Comma)], Newline)

\* exportData without its guard on an empty buffer
exportDataUnguarded(locale) ==
    /\ view = "mounted"
    /\ download' = Csv(history, locale)
    /\ UNCHANGED <<tabs, view, gen, sensorData, loading, error, history, analytics,
                   storage, timers, inFlight, polls>>

\* a click on Export CSV in a browser of the given locale
exportData(locale) ==
    /\ view = "mounted"
    /\ download' = IF Len(history) = 0 THEN download ELSE Csv(history, locale)
    /\ UNCHANGED <<tabs, view, gen, sensorData, loading, error, history, analytics,
                   storage, timers, inFlight, polls>>

\* the Analytics section, with the Export CSV button, is rendered
ExportOffered == analytics # Null /\ Len(history) > 0

\* the buffers a Dashboard can have reloaded: at most MaxLen readings, in
\* the order of their timestamps
ExportBuffers ==
    { [i \in 1..Len(b) |-> [b[i] EXCEPT !.timestamp = [type |-> "Date", ms |-> i]]] :
        b \in Buffers }

InitExport ==
    /\ view = "mounted"
    /\ gen = 1
    /\ sensorData = Null
    /\ loading = TRUE
    /\ error = Null
    /\ storage \in {NoItem} \cup { JSONstringify(b) : b \in ExportBuffers }
    /\ history = LoadedHistory(storage)
    /\ analytics \in LoadedAnalytics(storage)
    /\ timers = {1}
    /\ inFlight = {Request(1, 1)}
    /\ polls = 1
    /\ download = Null
    /\ DashboardTab

NextExport == \E locale \in Locales : exportData(locale)

SpecExport == InitExport /\ [][NextExport]_vars

----------------------------------------------------------------------------
(* classify: the status the sensor service derives for a reading *)

Rank(status) ==
    IF status = "critical" THEN 2 ELSE IF status = "warning" THEN 1 ELSE 0

Worst(a, b) == IF Rank(a) >= Rank(b) THEN a ELSE b

TemperatureStatus(t) ==
    IF t < 500 \/ t > 4000 THEN "critical"
    ELSE IF t < 1000 \/ t > 3500 THEN "warning"
    ELSE "optimal"

\* only a soil moisture that is too low is a warning
SoilMoistureStatusLowOnly(m) ==
    IF m < 3000 THEN "warning" ELSE "optimal"

SoilMoistureStatus(m) ==
    IF m < 3000 \/ m > 8000 THEN "warning" ELSE "optimal"

\* the metric evaluated last decides
classifyLastWins(reading) ==
    IF SoilMoistureStatus(reading.soil_moisture) # "optimal"
    THEN SoilMoistureStatus(reading.soil_moisture)
    ELSE TemperatureStatus(reading.temperature)

classify(reading) ==
    Worst(TemperatureStatus(reading.temperature),
          SoilMoistureStatus(reading.soil_moisture))

Unclassified == "none"

Temperatures == {-4, 499, 500, 999, 1000, 2000, 3500, 3501, 4000, 4001}

SoilMoistures == {2500, 2999, 3000, 4500, 8000, 8001}

Humidities == {1000, 5500}

Sunlights == {500000, 3000000}

Measurements ==
    { Sample(t, h, m, l, Unclassified) :
        t \in Temperatures, h \in Humidities, m \in SoilMoistures,
        l \in Sunlights }

InitClassify ==
    /\ view = "unmounted"
    /\ gen = 1
    /\ sensorData \in Measurements
    /\ loading = FALSE
    /\ error = Null
    /\ history = <<>>
    /\ analytics = Null
    /\ storage = NoItem
    /\ timers = {}
    /\ inFlight = {}
    /\ polls = 0
    /\ download = Null
    /\ DashboardTab

Classify ==
    /\ sensorData.status = Unclassified
    /\ sensorData' = [sensorData EXCEPT !.status = classify(sensorData)]
    /\ UNCHANGED <<tabs, download, view, gen, loading, error, history, analytics, storage,
                   timers, inFlight, polls>>

NextClassify == Classify

SpecClassify == InitClassify /\ [][NextClassify]_vars

----------------------------------------------------------------------------
(* The App and its other three tabs.  The App renders the component of    *)
(* the active tab only: a switch of tab unmounts one component, discarding *)
(* its state, and mounts the next.  A promise or FileReader callback of a  *)
(* discarded component still runs: its state updates are dropped, its      *)
(* other statements are not.  The variables of the Dashboard stay at rest  *)
(* here; Spec follows them.  Each of the three tabs keeps its own item in  *)
(* localStorage and its own requests, so each is followed in a             *)
(* specification of its own.                                               *)

MaxSwitches == 3

MaxClock == 3

PlantHistoryCap == 20

PlansCap == 10

\* what localStorage.setItem does: it returns, or it throws (quota
\* exceeded, storage disabled)
Quota == {"ok", "exceeded"}

Outcomes == {"ok", "failed"}

\* JSON.stringify of an array of objects that hold strings, numbers and
\* null only
JSONstringifyPlain(list) == [json |-> list]

\* JSON.parse of such an item gives an array equal to the one written
JSONparsePlain(item) == item.json

\* the component of this callback is the one on the page
Current(op) == root = "rendered" /\ op.inst = instance

----------------------------------------------------------------------------
(* PlantHealth *)

Files == {"leafA.jpg", "leafB.jpg"}

File(f) == [name |-> f]

\* reader.result of readAsDataURL(file)
DataURL(f) == [dataURL |-> f]

\* what POST /ai/plant-health answers for a file
Diagnosis(f) ==
    IF f = "leafA.jpg" THEN [status |-> "healthy", disease_name |-> ""]
    ELSE [status |-> "diseased", disease_name |-> "Leaf Spot"]

\* newRecord of handleAnalyze
Record(n, image, data) ==
    [id |-> n, image |-> image, analysis |-> data,
     timestamp |-> [type |-> "string", ms |-> n]]

\* the k records an earlier session left under 'plantHealthHistory'
StoredRecords(k) ==
    [i \in 1..k |-> Record(i - k, DataURL("leafA.jpg"), Diagnosis("leafA.jpg"))]

\* useState initial values of PlantHealth, the lazy initializer of
\* `history` and the load effect; the initializer throws on an item that
\* does not parse
PlantHealthMounted(item) ==
    [selectedFile |-> Null, preview |-> Null, analysis |-> Null,
     loading |-> FALSE, error |-> Null,
     history |-> IF item = NoItem THEN <<>> ELSE JSONparsePlain(item)]

handleFileChange(f) ==
    /\ root = "rendered"
    /\ plantHealth # Null
    /\ clock < MaxClock
    /\ Cardinality(pending) < MaxInFlight
    /\ plantHealth' = [plantHealth EXCEPT !.selectedFile = File(f),
                                          !.analysis = Null, !.error = Null]
    /\ pending' = pending \cup
          {[kind |-> "read", id |-> clock + 1, inst |-> instance, file |-> f]}
    /\ clock' = clock + 1
    /\ UNCHANGED <<dashboard, activeTab, root, instance, chatBot, cropPlanner,
                   localStorage>>

\* reader.onloadend
onloadend(op) ==
    /\ op \in pending
    /\ op.kind = "read"
    /\ Current(op)
    /\ pending' = pending \ {op}
    /\ plantHealth' = [plantHealth EXCEPT !.preview = DataURL(op.file)]
    /\ UNCHANGED <<dashboard, activeTab, root, instance, chatBot, cropPlanner,
                   localStorage, clock>>

\* a click on Analyze Plant Health; the button is disabled without a file
\* and while loading.  The promise keeps the `preview` and `history` of the
\* render it was started from
handleAnalyze ==
    /\ root = "rendered"
    /\ plantHealth # Null
    /\ plantHealth.selectedFile # Null
    /\ ~plantHealth.loading
    /\ clock < MaxClock
    /\ Cardinality(pending) < MaxInFlight
    /\ plantHealth' = [plantHealth EXCEPT !.loading = TRUE, !.error = Null]
    /\ pending' = pending \cup
          {[kind |-> "analyze", id |-> clock + 1, inst |-> instance,
            file |-> plantHealth.selectedFile.name,
            preview |-> plantHealth.preview,
            history |-> plantHealth.history]}
    /\ clock' = clock + 1
    /\ UNCHANGED <<dashboard, activeTab, root, instance, chatBot, cropPlanner,
                   localStorage>>

\* updatedHistory of handleAnalyze
updatedHistory(op) ==
    SliceLast(Append(op.history, Record(op.id, op.preview, Diagnosis(op.file))),
              PlantHistoryCap)

\* the analysis request is answered ok; a throwing setItem is caught by
\* the catch of handleAnalyze
AnalyzeOk(op, quota) ==
    /\ op \in pending
    /\ op.kind = "analyze"
    /\ Current(op)
    /\ pending' = pending \ {op}
    /\ plantHealth' =
          [plantHealth EXCEPT
              !.analysis = Diagnosis(op.file),
              !.history = updatedHistory(op),
              !.error = IF quota = "ok" THEN @
                        ELSE [message |-> "QuotaExceededError"],
              !.loading = FALSE]
    /\ localStorage' =
          IF quota = "ok"
          THEN [localStorage EXCEPT
                  !.plantHealthHistory = JSONstringifyPlain(updatedHistory(op))]
          ELSE localStorage
    /\ UNCHANGED <<dashboard, activeTab, root, instance, chatBot, cropPlanner,
                   clock>>

\* fetch rejects or the response is not ok
AnalyzeFail(op) ==
    /\ op \in pending
    /\ op.kind = "analyze"
    /\ Current(op)
    /\ pending' = pending \ {op}
    /\ plantHealth' =
          [plantHealth EXCEPT !.error = [message |-> "Failed to analyze image"],
                              !.loading = FALSE]
    /\ UNCHANGED <<dashboard, activeTab, root, instance, chatBot, cropPlanner,
                   localStorage, clock>>

\* the analysis request of a discarded PlantHealth is answered ok: its
\* state updates are dropped, its setItem runs
AnalyzeOkDiscarded(op) ==
    /\ op \in pending
    /\ op.kind = "analyze"
    /\ ~Current(op)
    /\ pending' = pending \ {op}
    /\ localStorage' =
          [localStorage EXCEPT
              !.plantHealthHistory = JSONstringifyPlain(updatedHistory(op))]
    /\ UNCHANGED <<dashboard, activeTab, root, instance, plantHealth, chatBot,
                   cropPlanner, clock>>

\* a click on the i-th record of the Analysis History
onClickRecord(i) ==
    /\ root = "rendered"
    /\ plantHealth # Null
    /\ i \in 1..Len(plantHealth.history)
    /\ plantHealth' = [plantHealth EXCEPT
                          !.analysis = plantHealth.history[i].analysis,
                          !.preview = plantHealth.history[i].image]
    /\ UNCHANGED <<dashboard, activeTab, root, instance, chatBot, cropPlanner,
                   localStorage, pending, clock>>

----------------------------------------------------------------------------
(* ChatBot.  The effect on [messages] runs after every render that changed *)
(* the list; an exception it throws is not caught by any error boundary,   *)
(* so React removes the root.                                              *)

Greeting ==
    [role |-> "assistant", content |-> "Hello! I'm FarmGPT"]

defaultMessage == <<Greeting>>

ErrorReply ==
    [role |-> "assistant", content |-> "Sorry, I encountered an error."]

\* what the user types or picks from Quick questions
Inputs == {" ", " water? ", "pests?"}

\* String.prototype.trim
Trim(str) ==
    IF str = " " THEN "" ELSE IF str = " water? " THEN "water?" ELSE str

\* data.response of POST /ai/farmchat for a message
Answer(message) ==
    IF message = "water?" THEN "Water every two days." ELSE "Use neem oil."

UserMessage(text) == [role |-> "user", content |-> text]

AssistantMessage(text) == [role |-> "assistant", content |-> text]

\* the conversation an earlier session left under 'chatHistory'
StoredChat ==
    <<Greeting, UserMessage("pests?"), AssistantMessage(Answer("pests?"))>>

\* useState initial values of ChatBot and the lazy initializer of
\* `messages`
ChatBotMounted(item) ==
    [messages |-> IF item = NoItem THEN defaultMessage
                  ELSE IF item = Corrupt THEN defaultMessage
                  ELSE IF Len(JSONparsePlain(item)) > 0 THEN JSONparsePlain(item)
                  ELSE defaultMessage,
     inputMessage |-> "", loading |-> FALSE]

\* the render that shows `next` and the effect that persists its
\* messages; `sent` are the requests the handler started before it
Render(next, sent, quota) ==
    IF quota = "ok"
    THEN /\ chatBot' = next
         /\ localStorage' =
               [localStorage EXCEPT
                   !.chatHistory = JSONstringifyPlain(next.messages)]
         /\ pending' = sent
         /\ UNCHANGED <<root, plantHealth, cropPlanner>>
    ELSE /\ root' = "removed"
         /\ chatBot' = Null
         /\ pending' = sent
         /\ UNCHANGED <<localStorage, plantHealth, cropPlanner>>

\* onChange of the input and the Quick questions; both are disabled while
\* loading
setInputMessage(text) ==
    /\ root = "rendered"
    /\ chatBot # Null
    /\ ~chatBot.loading
    /\ text # chatBot.inputMessage
    /\ chatBot' = [chatBot EXCEPT !.inputMessage = text]
    /\ UNCHANGED <<dashboard, activeTab, root, instance, plantHealth,
                   cropPlanner, localStorage, pending, clock>>

handleSend(quota) ==
    /\ root = "rendered"
    /\ chatBot # Null
    /\ IF Trim(chatBot.inputMessage) = "" \/ chatBot.loading
       THEN UNCHANGED tabs
       ELSE /\ clock < MaxClock
            /\ Cardinality(pending) < MaxInFlight
            /\ clock' = clock + 1
            /\ Render([messages |-> Append(chatBot.messages,
                                           UserMessage(Trim(chatBot.inputMessage))),
                       inputMessage |-> "", loading |-> TRUE],
                      pending \cup
                        {[kind |-> "chat", id |-> clock + 1, inst |-> instance,
                          message |-> Trim(chatBot.inputMessage)]},
                      quota)
            /\ UNCHANGED <<activeTab, instance>>
    /\ UNCHANGED dashboard

\* the chat request settles: the answer, or the fixed error message
ChatSettled(op, outcome, quota) ==
    /\ op \in pending
    /\ op.kind = "chat"
    /\ Current(op)
    /\ Render([chatBot EXCEPT
                  !.messages =
                      Append(@, IF outcome = "ok"
                                THEN AssistantMessage(Answer(op.message))
                                ELSE ErrorReply),
                  !.loading = FALSE],
              pending \ {op}, quota)
    /\ UNCHANGED <<dashboard, activeTab, instance, clock>>

\* a click on Clear.  A throwing setItem leaves the handler after
\* setMessages, and the effect of the next render throws again
clearChat(quota) ==
    /\ root = "rendered"
    /\ chatBot # Null
    /\ Render([chatBot EXCEPT !.messages = defaultMessage], pending, quota)
    /\ UNCHANGED <<dashboard, activeTab, instance, clock>>

----------------------------------------------------------------------------
(* CropPlanner *)

Cities == {"Mumbai"}

\* what POST /ai/crop-designer answers for a city
Designed(city) ==
    [suggestions |-> <<"Tomato", "Spinach">>, planting_plan |-> "plan",
     location_analysis |-> city]

\* newPlan of savePlan
Plan(n, city, designed) ==
    [id |-> n, city |-> city, suggestions |-> designed.suggestions,
     plantingPlan |-> designed.planting_plan,
     locationAnalysis |-> designed.location_analysis,
     createdAt |-> [type |-> "string", ms |-> n]]

\* the k plans an earlier session left under 'savedCropPlans'
StoredPlans(k) == [i \in 1..k |-> Plan(i - k, "Mumbai", Designed("Mumbai"))]

\* useState initial values of CropPlanner, the lazy initializer of
\* `savedPlans` and the load effect; the initializer throws on an item
\* that does not parse
CropPlannerMounted(item) ==
    [formData |-> [city |-> ""], suggestions |-> Null, loading |-> FALSE,
     error |-> Null,
     savedPlans |-> IF item = NoItem THEN <<>> ELSE JSONparsePlain(item)]

\* onChange of the City input
setFormData(city) ==
    /\ root = "rendered"
    /\ cropPlanner # Null
    /\ city # cropPlanner.formData.city
    /\ cropPlanner' = [cropPlanner EXCEPT !.formData.city = city]
    /\ UNCHANGED <<dashboard, activeTab, root, instance, plantHealth, chatBot,
                   localStorage, pending, clock>>

\* the form is submitted; City is a required field and the button is
\* disabled while loading
handleSubmit ==
    /\ root = "rendered"
    /\ cropPlanner # Null
    /\ cropPlanner.formData.city # ""
    /\ ~cropPlanner.loading
    /\ clock < MaxClock
    /\ Cardinality(pending) < MaxInFlight
    /\ cropPlanner' = [cropPlanner EXCEPT !.loading = TRUE, !.error = Null]
    /\ pending' = pending \cup
          {[kind |-> "design", id |-> clock + 1, inst |-> instance,
            city |-> cropPlanner.formData.city]}
    /\ clock' = clock + 1
    /\ UNCHANGED <<dashboard, activeTab, root, instance, plantHealth, chatBot,
                   localStorage>>

\* the crop-designer request settles
DesignSettled(op, outcome) ==
    /\ op \in pending
    /\ op.kind = "design"
    /\ Current(op)
    /\ pending' = pending \ {op}
    /\ cropPlanner' =
          IF outcome = "ok"
          THEN [cropPlanner EXCEPT !.suggestions = Designed(op.city),
                                   !.loading = FALSE]
          ELSE [cropPlanner EXCEPT
                   !.error = [message |-> "Failed to get crop suggestions"],
                   !.loading = FALSE]
    /\ UNCHANGED <<dashboard, activeTab, root, instance, plantHealth, chatBot,
                   localStorage, clock>>

\* `updated` of savePlan
updated ==
    SliceLast(Append(cropPlanner.savedPlans,
                     Plan(clock + 1, cropPlanner.formData.city,
                          cropPlanner.suggestions)),
              PlansCap)

\* a click on Save Plan; a throwing setItem leaves the handler after
\* setSavedPlans
savePlan(quota) ==
    /\ root = "rendered"
    /\ cropPlanner # Null
    /\ IF cropPlanner.suggestions = Null \/ cropPlanner.formData.city = ""
       THEN UNCHANGED tabs
       ELSE /\ clock < MaxClock
            /\ clock' = clock + 1
            /\ cropPlanner' = [cropPlanner EXCEPT !.savedPlans = updated]
            /\ localStorage' =
                  IF quota = "ok"
                  THEN [localStorage EXCEPT
                          !.savedCropPlans = JSONstringifyPlain(updated)]
                  ELSE localStorage
            /\ UNCHANGED <<activeTab, root, instance, plantHealth, chatBot,
                           pending>>
    /\ UNCHANGED dashboard

\* a click on the i-th saved plan
loadPlan(i) ==
    /\ root = "rendered"
    /\ cropPlanner # Null
    /\ i \in 1..Len(cropPlanner.savedPlans)
    /\ cropPlanner' =
          [cropPlanner EXCEPT
              !.formData.city = cropPlanner.savedPlans[i].city,
              !.suggestions =
                  [suggestions |-> cropPlanner.savedPlans[i].suggestions,
                   planting_plan |-> cropPlanner.savedPlans[i].plantingPlan,
                   location_analysis |->
                       cropPlanner.savedPlans[i].locationAnalysis]]
    /\ UNCHANGED <<dashboard, activeTab, root, instance, plantHealth, chatBot,
                   localStorage, pending, clock>>

----------------------------------------------------------------------------
(* The App *)

Tabs == {"dashboard", "crop-planner", "chat", "plant-health"}

\* rendering the component of the tab throws: a lazy initializer calls
\* JSON.parse on an item that does not parse, or the first effect of
\* ChatBot calls a setItem that throws
MountThrows(tab, quota) ==
    \/ tab = "plant-health" /\ localStorage.plantHealthHistory = Corrupt
    \/ tab = "crop-planner" /\ localStorage.savedCropPlans = Corrupt
    \/ tab = "chat" /\ quota = "exceeded"

\* a click on a tab of the header
setActiveTab(tab, quota) ==
    /\ root = "rendered"
    /\ tab # activeTab
    /\ instance <= MaxSwitches
    /\ activeTab' = tab
    /\ instance' = instance + 1
    /\ IF MountThrows(tab, quota)
       THEN /\ root' = "removed"
            /\ plantHealth' = Null
            /\ chatBot' = Null
            /\ cropPlanner' = Null
            /\ UNCHANGED localStorage
       ELSE /\ root' = root
            /\ plantHealth' =
                  IF tab = "plant-health"
                  THEN PlantHealthMounted(localStorage.plantHealthHistory)
                  ELSE Null
            /\ chatBot' =
                  IF tab = "chat" THEN ChatBotMounted(localStorage.chatHistory)
                  ELSE Null
            /\ cropPlanner' =
                  IF tab = "crop-planner"
                  THEN CropPlannerMounted(localStorage.savedCropPlans)
                  ELSE Null
            /\ localStorage' =
                  IF tab = "chat"
                  THEN [localStorage EXCEPT
                          !.chatHistory =
                              JSONstringifyPlain(
                                  ChatBotMounted(localStorage.chatHistory).messages)]
                  ELSE localStorage
    /\ UNCHANGED <<dashboard, pending, clock>>

\* a callback whose component was discarded and that writes nothing: every
\* state update it requests is dropped
Discarded(op) ==
    /\ op \in pending
    /\ ~Current(op)
    /\ pending' = pending \ {op}
    /\ UNCHANGED <<dashboard, activeTab, root, instance, plantHealth, chatBot,
                   cropPlanner, localStorage, clock>>

\* what earlier sessions left in localStorage: nothing, items that do not
\* parse, or lists one short of their caps
StoredItems ==
    { [plantHealthHistory |-> NoItem, chatHistory |-> NoItem,
       savedCropPlans |-> NoItem],
      [plantHealthHistory |-> Corrupt, chatHistory |-> Corrupt,
       savedCropPlans |-> Corrupt],
      [plantHealthHistory |->
           JSONstringifyPlain(StoredRecords(PlantHistoryCap - 1)),
       chatHistory |-> JSONstringifyPlain(StoredChat),
       savedCropPlans |-> JSONstringifyPlain(StoredPlans(PlansCap - 1))] }

InitTabs ==
    /\ view = "unmounted"
    /\ gen = 1
    /\ sensorData = Null
    /\ loading = FALSE
    /\ error = Null
    /\ history = <<>>
    /\ analytics = Null
    /\ storage = NoItem
    /\ timers = {}
    /\ inFlight = {}
    /\ polls = 0
    /\ download = Null
    /\ activeTab = "dashboard"
    /\ root = "rendered"
    /\ instance = 1
    /\ plantHealth = Null
    /\ chatBot = Null
    /\ cropPlanner = Null
    /\ localStorage \in StoredItems
    /\ pending = {}
    /\ clock = 0

\* the user moves between the Dashboard and Plant Health
NextPlantHealth ==
    \/ \E tab \in {"dashboard", "plant-health"}, quota \in Quota :
          setActiveTab(tab, quota)
    \/ \E f \in Files : handleFileChange(f)
    \/ \E op \in pending : onloadend(op)
    \/ handleAnalyze
    \/ \E op \in pending, quota \in Quota : AnalyzeOk(op, quota)
    \/ \E op \in pending : AnalyzeFail(op)
    \/ \E op \in pending : AnalyzeOkDiscarded(op)
    \/ \E i \in 1..PlantHistoryCap : onClickRecord(i)
    \/ \E op \in pending : Discarded(op)

SpecPlantHealth == InitTabs /\ [][NextPlantHealth]_vars

\* the user moves between the Dashboard and Farm Chat
NextChat ==
    \/ \E tab \in {"dashboard", "chat"}, quota \in Quota :
          setActiveTab(tab, quota)
    \/ \E text \in Inputs : setInputMessage(text)
    \/ \E quota \in Quota : handleSend(quota)
    \/ \E op \in pending, outcome \in Outcomes, quota \in Quota :
          ChatSettled(op, outcome, quota)
    \/ \E quota \in Quota : clearChat(quota)
    \/ \E op \in pending : Discarded(op)

SpecChat == InitTabs /\ [][NextChat]_vars

\* the user moves between the Dashboard and the Crop Planner
NextPlanner ==
    \/ \E tab \in {"dashboard", "crop-planner"}, quota \in Quota :
          setActiveTab(tab, quota)
    \/ \E city \in Cities \cup {""} : setFormData(city)
    \/ handleSubmit
    \/ \E op \in pending, outcome \in Outcomes : DesignSettled(op, outcome)
    \/ \E quota \in Quota : savePlan(quota)
    \/ \E i \in 1..PlansCap : loadPlan(i)
    \/ \E op \in pending : Discarded(op)

SpecPlanner == InitTabs /\ [][NextPlanner]_vars

----------------------------------------------------------------------------
(* Vocabulary of the properties, independent of the operators above *)

IsJSON(item) == item # NoItem /\ item # Corrupt

Values(h, m) == { h[i][m] : i \in 1..Len(h) }

Least(S) == CHOOSE x \in S : \A y \in S : x <= y

Greatest(S) == CHOOSE x \in S : \A y \in S : x >= y

RECURSIVE Total(_, _, _)
Total(h, m, k) == IF k = 0 THEN 0 ELSE h[k][m] + Total(h, m, k - 1)

\* printed value n (in printed units) is a nearest printed value to num/den
Nearest(n, num, den, unit) == 2 * Abs(n * den * unit - num) <= den * unit

\* printed value n lies no more than half a printed unit outside [lo, hi]
WithinHalfUnit(n, lo, hi, unit) ==
    /\ 2 * (lo - n * unit) <= unit
    /\ 2 * (n * unit - hi) <= unit

\* the buffer after one more reading, first in first out
Fifo(h, reading) ==
    IF Len(h) < HistoryCap THEN Append(h, reading)
    ELSE Append(Tail(h), reading)

Ingested(data) == [data EXCEPT !.timestamp = [type |-> "Date", ms |-> @.ms]]

----------------------------------------------------------------------------
(* The History Buffer *)

\* C1: in every reachable state the history buffer holds at most 50 readings
ThmC1 == Len(history) <= HistoryCap

\* a poll was ingested into a full buffer
WitC1 ==
    /\ view = "mounted"
    /\ sensorData # Null
    /\ Len(history) = HistoryCap
    /\ history[HistoryCap].timestamp = NewDate(sensorData.timestamp)

\* C2: a successful ingest appends the reading last and, once the buffer is
\* full, evicts exactly the oldest reading, so the buffer is the last 50
\* readings in ingest order
ThmC2 ==
    [][\A r \in inFlight, data \in Payloads :
          FetchOk(r, data) =>
             history' = Fifo(history, Ingested(Response(r.id, data)))]_vars

\* the reading an earlier session ingested first has been evicted, the
\* second is now the oldest and a reading of this session is the newest
WitC2 ==
    /\ Len(history) = HistoryCap
    /\ history[1].timestamp.ms = 2
    /\ history[HistoryCap].timestamp.ms > HistoryCap

----------------------------------------------------------------------------
(* The Analytics Snapshot *)

StatsOf(h, a, m) ==
    /\ Nearest(a[m].avg, Total(h, m, Len(h)), Len(h), Precision(m))
    /\ Nearest(a[m].min, Least(Values(h, m)), 1, Precision(m))
    /\ Nearest(a[m].max, Greatest(Values(h, m)), 1, Precision(m))
    /\ a[m].trend = Trend(Column(h, m))

\* C3: the snapshot is the per-metric average, minimum, maximum and trend
\* of the whole current buffer
ThmC3 ==
    history # <<>> =>
        /\ analytics # Null
        /\ \A m \in Metrics : StatsOf(history, analytics, m)

\* a reload and an ingest have both recomputed the snapshot
WitC3 ==
    /\ view = "mounted"
    /\ Len(history) > 1
    /\ history[1].timestamp.type = "string"
    /\ history[Len(history)].timestamp.type = "Date"
    /\ analytics # Null

\* C4: the snapshot is absent iff the buffer is empty
ThmC4 == (analytics = Null) <=> (history = <<>>)

\* the first reading was ingested into an empty buffer
WitC4 ==
    /\ view = "mounted"
    /\ Len(history) = 1
    /\ history[1].timestamp.type = "Date"
    /\ analytics # Null

\* C5: the trend of a metric is rising iff the newest value is greater than
\* the oldest, falling iff it is smaller, flat iff they are equal or the
\* buffer holds at most one reading
CexC5 ==
    (view = "mounted" /\ analytics # Null) =>
        \A m \in Metrics :
            LET oldest == history[1][m]
                newest == history[Len(history)][m]
            IN  /\ analytics[m].trend = Rising <=> newest > oldest
                /\ analytics[m].trend = Falling <=> newest < oldest
                /\ analytics[m].trend = Steady <=>
                       (newest = oldest \/ Len(history) <= 1)

\* C6 as stated: the printed average, minimum and maximum lie within the
\* raw [min, max] of the buffer, and printed min <= avg <= max
CexC6 ==
    (view = "mounted" /\ analytics # Null) =>
        \A m \in Metrics :
            LET lo == Least(Values(history, m))
                hi == Greatest(Values(history, m))
                u  == Precision(m)
                a  == analytics[m]
            IN  /\ lo <= a.avg * u /\ a.avg * u <= hi
                /\ lo <= a.min * u /\ a.min * u <= hi
                /\ lo <= a.max * u /\ a.max * u <= hi
                /\ a.min <= a.avg /\ a.avg <= a.max

\* C6 amended: the printed average, minimum and maximum lie no more than
\* half a unit of the printed precision outside the raw [min, max] of the
\* buffer, and printed min <= printed max
ThmC6 ==
    (view = "mounted" /\ analytics # Null) =>
        \A m \in Metrics :
            LET lo == Least(Values(history, m))
                hi == Greatest(Values(history, m))
                a  == analytics[m]
            IN  /\ WithinHalfUnit(a.avg, lo, hi, Precision(m))
                /\ WithinHalfUnit(a.min, lo, hi, Precision(m))
                /\ WithinHalfUnit(a.max, lo, hi, Precision(m))
                /\ a.min <= a.max

\* a snapshot of several readings whose printed minimum is not a raw value
WitC6 ==
    /\ view = "mounted" /\ analytics # Null
    /\ Len(history) > 1
    /\ analytics.temperature.min * Precision("temperature")
          # Least(Values(history, "temperature"))

\* C7: the printed average is the arithmetic mean of all buffered values
\* rounded to the printed precision; temperatures [20, 22, 25] print 22.3
\* with a rising trend
ThmC7 ==
    (view = "mounted" /\ analytics # Null) =>
        /\ \A m \in Metrics :
              Nearest(analytics[m].avg, Total(history, m, Len(history)),
                      Len(history), Precision(m))
        /\ Column(history, "temperature") = <<2000, 2200, 2500>> =>
              /\ analytics.temperature.avg = 223
              /\ analytics.temperature.trend = Rising

\* the snapshot of temperatures [20, 22, 25]
WitC7 ==
    /\ view = "mounted" /\ analytics # Null
    /\ Column(history, "temperature") = <<2000, 2200, 2500>>

----------------------------------------------------------------------------
(* Persistence *)

SameReading(stored, reading) ==
    /\ \A f \in Metrics \cup {"status"} : stored[f] = reading[f]
    /\ stored.timestamp = [type |-> "string", ms |-> reading.timestamp.ms]

\* C8: the item under 'sensorHistory' is the serialization of exactly the
\* buffer in memory: the same readings in the same order, at most 50
ThmC8 ==
    history # <<>> =>
        /\ IsJSON(storage)
        /\ Len(storage.json) = Len(history)
        /\ Len(storage.json) <= HistoryCap
        /\ \A i \in 1..Len(history) : SameReading(storage.json[i], history[i])

\* an ingest into a full buffer has overwritten the stored item
WitC8 ==
    /\ view = "mounted"
    /\ sensorData # Null
    /\ IsJSON(storage)
    /\ Len(storage.json) = HistoryCap
    /\ storage.json[HistoryCap].timestamp = sensorData.timestamp

\* C9: when localStorage.setItem fails during an ingest the buffer and the
\* snapshot still take the new reading, no error is raised and the
\* Dashboard stays up
CexC9 ==
    [][\A r \in inFlight, data \in Payloads :
          FetchOkSetItemThrows(r, data) =>
             /\ view' = "mounted"
             /\ error' = Null
             /\ history' = Fifo(history, Ingested(Response(r.id, data)))
             /\ analytics' # analytics]_vars

\* C10: while the stored item is unparseable the Dashboard runs with an
\* empty buffer and no snapshot, and the next successful poll is ingested
\* as the first reading and replaces the item
ThmC10 ==
    /\ [](storage = Corrupt => (history = <<>> /\ analytics = Null))
    /\ [][\A r \in inFlight, data \in Payloads :
            (storage = Corrupt /\ FetchOk(r, data)) =>
               /\ history' = <<Ingested(Response(r.id, data))>>
               /\ analytics' # Null
               /\ IsJSON(storage')]_vars

\* a Dashboard started again on the unparseable item is up and polling
WitC10 ==
    /\ storage = Corrupt
    /\ view = "mounted"
    /\ gen > 1
    /\ Live # {}

----------------------------------------------------------------------------
(* The polling loop *)

\* C11: a failed poll sets the error message, leaves the last reading, the
\* buffer, the snapshot and the stored item unchanged, and the readings
\* SensorPanel displayed before it stay displayed
CexC11 ==
    [][\A r \in inFlight, msg \in FetchErrors :
          FetchFail(r, msg) =>
             /\ error' = [message |-> msg]
             /\ UNCHANGED <<sensorData, history, analytics, storage>>
             /\ SensorPanel(sensorData, loading, error) = "readings" =>
                   SensorPanel(sensorData', loading', error') = "readings"]_vars

\* C12: a failed poll neither stops the timer nor issues a fetch of its
\* own, the timer of a mounted Dashboard is live, and the next poll that is
\* answered ok clears the error and ingests its reading
CexC12 ==
    /\ [](view = "mounted" => timers = {gen})
    /\ [][\A r \in inFlight, msg \in FetchErrors :
            FetchFail(r, msg) => (timers' = timers /\ polls' = polls)]_vars
    /\ [][\A r \in inFlight, data \in Payloads :
            (error # Null /\ (FetchOk(r, data) \/ FetchOkSetItemThrows(r, data)))
               => /\ error' = Null
                  /\ history' = Fifo(history, Ingested(Response(r.id, data)))]_vars

\* C13: at most one interval timer is live, it belongs to the mounted
\* Dashboard, none is live after teardown, and a fetch is only ever started
\* by the mounted Dashboard
ThmC13 ==
    /\ [](/\ Cardinality(timers) <= 1
          /\ timers \subseteq {gen}
          /\ view # "mounted" => timers = {})
    /\ [][polls' # polls =>
            /\ view' = "mounted"
            /\ inFlight' \ inFlight = {[id |-> polls', gen |-> gen']}]_vars

\* a Dashboard mounted again after a teardown, with its one timer
WitC13 ==
    /\ gen > 1
    /\ view = "mounted"
    /\ timers = {gen}
    /\ \E r \in inFlight : r.gen < gen

\* C14: the timestamps of the buffered readings never decrease from first
\* to last
CexC14 ==
    \A i, j \in 1..Len(history) :
        i < j => history[i].timestamp.ms <= history[j].timestamp.ms

----------------------------------------------------------------------------
(* classify *)

Classified == sensorData # Null /\ sensorData.status # Unclassified

\* C15: every reading gets exactly one of optimal, warning and critical,
\* the worst of its per-metric results; a temperature below 5 or above 40
\* is critical whatever the soil moisture
ThmC15 ==
    Classified =>
        LET t == sensorData.temperature
            m == sensorData.soil_moisture
            tempCritical == t < 500 \/ t > 4000
            tempWarning  == t < 1000 \/ t > 3500
            soilWarning  == m < 3000 \/ m > 8000
        IN  /\ sensorData.status \in {"optimal", "warning", "critical"}
            /\ sensorData.status = "critical" <=> tempCritical
            /\ sensorData.status = "warning" <=>
                  (~tempCritical /\ (tempWarning \/ soilWarning))

\* a critical temperature classified together with a soil-moisture warning
WitC15 ==
    /\ Classified
    /\ sensorData.temperature > 4000
    /\ sensorData.soil_moisture < 3000
    /\ sensorData.status = "critical"

\* C16: with the temperature within [10, 35] the status is warning iff the
\* soil moisture is below 30 or above 80 and optimal otherwise, whatever
\* humidity and sunlight are
ThmC16 ==
    (Classified /\ sensorData.temperature >= 1000
                /\ sensorData.temperature <= 3500) =>
        /\ \A h \in Humidities, l \in Sunlights :
              classify([sensorData EXCEPT !.humidity = h,
                                          !.sunlight_intensity = l])
                 = sensorData.status
        /\ IF sensorData.soil_moisture < 3000 \/ sensorData.soil_moisture > 8000
           THEN sensorData.status = "warning"
           ELSE sensorData.status = "optimal"

\* a soil moisture of 25 classified as warning
WitC16 ==
    /\ Classified
    /\ sensorData.temperature = 2000
    /\ sensorData.soil_moisture = 2500
    /\ sensorData.status = "warning"

----------------------------------------------------------------------------
(* CSV export *)

\* String.prototype.split of a string of tokens
RECURSIVE Split(_, _)
Split(str, sep) ==
    IF \A i \in 1..Len(str) : str[i] # sep THEN <<str>>
    ELSE LET k == CHOOSE i \in 1..Len(str) :
                     str[i] = sep /\ \A j \in 1..(i - 1) : str[j] # sep
         IN  <<SubSeq(str, 1, k - 1)>> \o Split(SubSeq(str, k + 1, Len(str)), sep)

Lines(csv) == Split(csv, Newline)

\* the numbers of a line, in the order they are written
Numbers(line) ==
    LET idx == { i \in 1..Len(line) : "num" \in DOMAIN line[i] }
        nth(S, n) == CHOOSE i \in S : Cardinality({ j \in S : j < i }) = n - 1
    IN  [n \in 1..Cardinality(idx) |-> line[nth(idx, n)].num]

\* the timestamp a line was written for
Stamped(line, ms) ==
    \E i \in 1..Len(line) :
        \/ ("datetime" \in DOMAIN line[i] /\ line[i].datetime = ms)
        \/ ("date" \in DOMAIN line[i] /\ line[i].date = ms)

Exported == view = "mounted" /\ history # <<>> /\ download # Null

ParseNumber(column) ==
    IF Len(column) = 1 /\ "num" \in DOMAIN column[1] THEN [num |-> column[1].num]
    ELSE Null

\* C18: every exported data row splits on commas into the six columns of
\* the header, and its Temperature, Humidity, Soil Moisture and Sunlight
\* columns parse back to the values of the buffered reading
CexC18 ==
    Exported =>
        \A i \in 1..Len(history) :
            LET columns == Split(Lines(download)[i + 1], Comma)
            IN  /\ Len(columns) = Len(headers)
                /\ ParseNumber(columns[2]) = [num |-> history[i].temperature]
                /\ ParseNumber(columns[3]) = [num |-> history[i].humidity]
                /\ ParseNumber(columns[4]) = [num |-> history[i].soil_moisture]
                /\ ParseNumber(columns[5]) =
                      [num |-> history[i].sunlight_intensity]

\* C19: with an empty buffer an export produces no file and changes
\* nothing, and the Export CSV button is not rendered
ThmC19 ==
    /\ [](history = <<>> => (download = Null /\ ~ExportOffered))
    /\ [][\A locale \in Locales :
            (history = <<>> /\ exportData(locale)) => UNCHANGED vars]_vars

\* a mounted Dashboard with nothing to export
WitC19 ==
    /\ view = "mounted"
    /\ history = <<>>
    /\ analytics = Null
    /\ ENABLED (\E locale \in Locales : exportData(locale))

----------------------------------------------------------------------------
(* Persistence round trip *)

\* C20: a Dashboard started again reloads the readings the buffer held at
\* teardown, in the same order
ThmC20 ==
    [][Mount =>
         /\ Len(history') = Len(history)
         /\ \A i \in 1..Len(history) : SameReading(history'[i], history[i])]_vars

\* a Dashboard started again holds, reloaded and before any new ingest, a
\* reading that its predecessor fetched
WitC20 ==
    /\ gen > 1
    /\ view = "mounted"
    /\ sensorData = Null
    /\ history # <<>>
    /\ history[Len(history)].timestamp.ms > HistoryCap

----------------------------------------------------------------------------
(* Overlapping polls *)

\* C21: every poll of the mounted Dashboard that is answered ok appends
\* exactly its one reading, so the buffer grows by one up to the cap of 50,
\* whatever other fetches are in flight and whatever the reload restored
CexC21 ==
    [][\A r \in inFlight, data \in Payloads :
          (FetchOk(r, data) \/ FetchOkSetItemThrows(r, data)) =>
             /\ Len(history') =
                   (IF Len(history) + 1 < HistoryCap THEN Len(history) + 1
                    ELSE HistoryCap)
             /\ history'[Len(history')] = Ingested(Response(r.id, data))]_vars

----------------------------------------------------------------------------
(* Smart Alerts *)

\* C22: the alert banner is rendered iff the status of the latest reading
\* is warning or critical, and for a status that classify computed the
\* banner has at least one detail line: temperature below 10 or above 35,
\* soil moisture below 30, or soil moisture above 80
ThmC22 ==
    /\ AlertBanner(sensorData) <=>
          (sensorData # Null /\ sensorData.status \in {"warning", "critical"})
    /\ (Classified /\ AlertBanner(sensorData)) =>
          \/ "temperature" \in AlertDetails(sensorData)
                /\ (sensorData.temperature < 1000 \/ sensorData.temperature > 3500)
          \/ "soil moisture low" \in AlertDetails(sensorData)
                /\ sensorData.soil_moisture < 3000
          \/ "soil moisture high" \in AlertDetails(sensorData)
                /\ sensorData.soil_moisture > 8000

\* the banner of a warning that only a temperature between 5 and 10 caused
WitC22 ==
    /\ Classified
    /\ sensorData.status = "warning"
    /\ sensorData.temperature = 999
    /\ sensorData.soil_moisture = 4500
    /\ AlertBanner(sensorData)
    /\ AlertDetails(sensorData) = {"temperature"}

----------------------------------------------------------------------------
(* The capped lists of PlantHealth and CropPlanner *)

\* the list after one more record under a cap, oldest dropped first
Capped(list, record, cap) ==
    IF Len(list) < cap THEN Append(list, record)
    ELSE Append(Tail(list), record)

\* the list in memory and the item stored for it are the same list
Persisted(list, item) == IsJSON(item) /\ item.json = list

\* C23: the analysis history holds at most 20 records and the saved plans
\* at most 10; a successful analysis and a save each append one record,
\* dropping the oldest above the cap, and leave the stored item equal to
\* the list in memory
CexC23 ==
    /\ [](plantHealth # Null => Len(plantHealth.history) <= PlantHistoryCap)
    /\ [](cropPlanner # Null => Len(cropPlanner.savedPlans) <= PlansCap)
    /\ [][\A op \in pending, quota \in Quota :
            AnalyzeOk(op, quota) =>
               /\ plantHealth'.history =
                     Capped(plantHealth.history,
                            plantHealth'.history[Len(plantHealth'.history)],
                            PlantHistoryCap)
               /\ Persisted(plantHealth'.history,
                            localStorage'.plantHealthHistory)]_vars
    /\ [][\A quota \in Quota :
            (/\ cropPlanner # Null
             /\ cropPlanner.suggestions # Null
             /\ cropPlanner.formData.city # ""
             /\ savePlan(quota)) =>
               /\ cropPlanner'.savedPlans =
                     Capped(cropPlanner.savedPlans,
                            cropPlanner'.savedPlans[Len(cropPlanner'.savedPlans)],
                            PlansCap)
               /\ Persisted(cropPlanner'.savedPlans,
                            localStorage'.savedCropPlans)]_vars

----------------------------------------------------------------------------
(* PlantHealth: selection, preview and analysis *)

\* the record holds the preview of a file and the analysis of that file
Paired(record) ==
    \E f \in Files :
        record.image = DataURL(f) /\ record.analysis = Diagnosis(f)

\* C24: every record of the analysis history, in memory and stored, pairs
\* an analysis with the preview image of the file that was analysed
CexC24 ==
    /\ plantHealth # Null =>
          \A i \in 1..Len(plantHealth.history) : Paired(plantHealth.history[i])
    /\ IsJSON(localStorage.plantHealthHistory) =>
          \A i \in 1..Len(localStorage.plantHealthHistory.json) :
              Paired(localStorage.plantHealthHistory.json[i])

\* C25: an analysis on display is the analysis of the selected file, or of
\* the history record whose image is in the preview
CexC25 ==
    (plantHealth # Null /\ plantHealth.analysis # Null) =>
        \/ /\ plantHealth.selectedFile # Null
           /\ plantHealth.analysis = Diagnosis(plantHealth.selectedFile.name)
        \/ \E i \in 1..Len(plantHealth.history) :
              /\ plantHealth.history[i].image = plantHealth.preview
              /\ plantHealth.history[i].analysis = plantHealth.analysis

----------------------------------------------------------------------------
(* Unparseable items of the other tabs *)

\* C26: with an item that does not parse under its key, PlantHealth and
\* CropPlanner start with an empty list and ChatBot with the greeting
CexC26 ==
    [][\A tab \in Tabs :
          setActiveTab(tab, "ok") =>
             /\ (tab = "plant-health" /\ localStorage.plantHealthHistory = Corrupt)
                   => /\ root' = "rendered"
                      /\ plantHealth' # Null
                      /\ plantHealth'.history = <<>>
             /\ (tab = "crop-planner" /\ localStorage.savedCropPlans = Corrupt)
                   => /\ root' = "rendered"
                      /\ cropPlanner' # Null
                      /\ cropPlanner'.savedPlans = <<>>
             /\ (tab = "chat" /\ localStorage.chatHistory = Corrupt)
                   => /\ root' = "rendered"
                      /\ chatBot' # Null
                      /\ chatBot'.messages = <<Greeting>>]_vars

----------------------------------------------------------------------------
(* ChatBot *)

ChatRequests == { op \in pending : op.kind = "chat" }

\* C27: at most one chat request is in flight, a send while loading or
\* with a blank message changes nothing, and the request of an accepted
\* send settles by appending one assistant message and ending loading
CexC27 ==
    /\ [](Cardinality(ChatRequests) <= 1)
    /\ [][\A quota \in Quota :
            (/\ chatBot # Null
             /\ (Trim(chatBot.inputMessage) = "" \/ chatBot.loading)
             /\ handleSend(quota)) => UNCHANGED vars]_vars
    /\ [][\A op \in ChatRequests :
            op \notin pending' =>
               /\ chatBot # Null
               /\ chatBot' # Null
               /\ ~chatBot'.loading
               /\ Len(chatBot'.messages) = Len(chatBot.messages) + 1
               /\ chatBot'.messages[Len(chatBot'.messages)].role = "assistant"]_vars

\* C28: the message list is never empty, the item under 'chatHistory' is
\* the list in memory, and clearChat resets both to the greeting alone
CexC28 ==
    /\ [](chatBot # Null =>
             /\ Len(chatBot.messages) > 0
             /\ Persisted(chatBot.messages, localStorage.chatHistory))
    /\ [][\A quota \in Quota :
            clearChat(quota) =>
               /\ chatBot' # Null
               /\ chatBot'.messages = <<Greeting>>
               /\ Persisted(<<Greeting>>, localStorage'.chatHistory)]_vars

\* C29: every assistant message after the first message of the list comes
\* right after the user message it answers
CexC29 ==
    chatBot # Null =>
        \A i \in 2..Len(chatBot.messages) :
            chatBot.messages[i].role = "assistant" =>
                /\ chatBot.messages[i - 1].role = "user"
                /\ \/ chatBot.messages[i] = ErrorReply
                   \/ chatBot.messages[i].content =
                         Answer(chatBot.messages[i - 1].content)

====
